---- MODULE Spec2Model ----
(***************************************************************************)
(* Model of html-element-namer: the NameGenerator, the ClassIdScanner and   *)
(* the handlers the extension registers in activate().  Strings are        *)
(* sequences of one-character strings, so that splitting, substring search *)
(* and name formatting are computed.                                       *)
(***************************************************************************)
EXTENDS Integers, Sequences, FiniteSets, TLC

(* ------------------------------ bounds --------------------------------- *)
\* number of distinct md5 digests the random source can produce
NumDigests == 2
\* longest attribute value explored by the extraction specification
MaxContentLen == 3
\* number of NameGenerator API calls explored by SpecGen
MaxCalls == 3

(* ------------------------------ strings -------------------------------- *)
elem == <<"e", "l", "e", "m">>
Dash == <<"-">>
HexDigits ==
  <<"0", "1", "2", "3", "4", "5", "6", "7", "8", "9", "a", "b", "c", "d", "e", "f">>

\* 16^0 .. 16^4
Pow16 == <<1, 16, 256, 4096, 65536>>

\* length of the fingerprint: .slice(0, 5)
HashLen == 5

\* md5(...).digest("hex").slice(0, 5): the first five hex characters of a
\* digest; the digest itself is an input (clock and random source).
HexSlice(d) ==
  [i \in 1..HashLen |-> HexDigits[((d \div Pow16[HashLen - i + 1]) % 16) + 1]]

Digests == 0..(NumDigests - 1)

\* the fingerprint of every digest the random source can produce
HashOf == [d \in Digests |-> HexSlice(d)]

\* a mutant of the template: the delimiter is left out
FormatNameNoDash(prefix, d) == prefix \o HashOf[d]

\* `${prefix}-${hash}`
FormatName(prefix, d) == prefix \o Dash \o HashOf[d]

\* "needle" occurs in "s" (String.prototype.includes)
Includes(s, needle) ==
  \E i \in 0..(Len(s) - Len(needle)) :
    \A j \in 1..Len(needle) : s[i + j] = needle[j]

SeqToSet(s) == {s[i] : i \in 1..Len(s)}

(* --------------------------- NameGenerator ----------------------------- *)
maxAttempts == 100

\* The random source of one generateUniqueName call: the digest drawn at
\* each attempt.  A draw pattern yields "first" for the first k attempts
\* and "rest" afterwards; a pattern with k = 0 draws one digest throughout.
DrawAt(draws, attempt) ==
  IF attempt < draws.k THEN draws.first ELSE draws.rest

DrawPatterns ==
  {p \in [first : Digests, k : {0, 1, maxAttempts - 1, maxAttempts}, rest : Digests] :
     (p.k = 0) <=> (p.first = p.rest)}

\* a mutant of the loop body: the candidate is returned without the
\* membership test
RECURSIVE GenerateLoopNoCheck(_, _, _, _)
GenerateLoopNoCheck(used, prefix, draws, attempts) ==
  IF attempts < maxAttempts
  THEN [threw |-> FALSE, name |-> FormatName(prefix, DrawAt(draws, attempts)),
        attempts |-> attempts]
  ELSE [threw |-> TRUE, name |-> <<>>, attempts |-> attempts]

\* a mutant of the loop bound: the call gives up one attempt early
RECURSIVE GenerateLoopShort(_, _, _, _)
GenerateLoopShort(used, prefix, draws, attempts) ==
  IF attempts < maxAttempts - 1
  THEN LET name == FormatName(prefix, DrawAt(draws, attempts))
       IN  IF name \notin used
           THEN [threw |-> FALSE, name |-> name, attempts |-> attempts]
           ELSE GenerateLoopShort(used, prefix, draws, attempts + 1)
  ELSE [threw |-> TRUE, name |-> <<>>, attempts |-> attempts]

\* a mutant of the loop bound: one more candidate is drawn
RECURSIVE GenerateLoopLong(_, _, _, _)
GenerateLoopLong(used, prefix, draws, attempts) ==
  IF attempts < maxAttempts + 1
  THEN LET name == FormatName(prefix, DrawAt(draws, attempts))
       IN  IF name \notin used
           THEN [threw |-> FALSE, name |-> name, attempts |-> attempts]
           ELSE GenerateLoopLong(used, prefix, draws, attempts + 1)
  ELSE [threw |-> TRUE, name |-> <<>>, attempts |-> attempts]

\* the while loop of generateUniqueName
RECURSIVE GenerateLoop(_, _, _, _)
GenerateLoop(used, prefix, draws, attempts) ==
  IF attempts < maxAttempts
  THEN LET name == FormatName(prefix, DrawAt(draws, attempts))
       IN  IF name \notin used
           THEN [threw |-> FALSE, name |-> name, attempts |-> attempts]
           ELSE GenerateLoop(used, prefix, draws, attempts + 1)
  ELSE [threw |-> TRUE, name |-> <<>>, attempts |-> attempts]

\* generateUniqueName(prefix = "elem"): the result of the call and the
\* used-name set it leaves
generateUniqueName(used, arg, draws) ==
  LET prefix == IF arg.given THEN arg.val ELSE elem
      r == GenerateLoop(used, prefix, draws, 0)
  IN  [threw |-> r.threw, name |-> r.name, attempts |-> r.attempts,
       used |-> IF r.threw THEN used ELSE used \cup {r.name}]

\* a mutant of addUsedName that forgets the name
addUsedNameDropped(used, name) == used

addUsedName(used, name) == used \cup {name}

Given(p) == [given |-> TRUE, val |-> p]
Omitted == [given |-> FALSE, val |-> <<>>]

(* --------------------------- scan extraction --------------------------- *)
IsWs(c) == c \in {" ", "\t"}

\* String.prototype.trim
RECURSIVE Trim(_)
Trim(s) ==
  IF s = <<>> THEN s
  ELSE IF IsWs(Head(s)) THEN Trim(Tail(s))
  ELSE IF IsWs(s[Len(s)]) THEN Trim(SubSeq(s, 1, Len(s) - 1))
  ELSE s

\* content.split(/\s+/): the pieces between maximal runs of whitespace;
\* "cur" is the piece being read, "inWs" says the previous character was
\* whitespace
RECURSIVE SplitWs(_, _, _)
SplitWs(s, cur, inWs) ==
  IF s = <<>> THEN <<cur>>
  ELSE IF IsWs(Head(s))
       THEN IF inWs THEN SplitWs(Tail(s), cur, TRUE)
            ELSE <<cur>> \o SplitWs(Tail(s), <<>>, TRUE)
       ELSE SplitWs(Tail(s), Append(cur, Head(s)), FALSE)

\* match[0] of classIdPattern for an attribute assignment
MatchText(m) == m.attr \o <<"=">> \o <<"\"">> \o m.content \o <<"\"">>

RECURSIVE TokenRecords(_)
TokenRecords(pieces) ==
  IF pieces = <<>> THEN <<>>
  ELSE (IF Trim(Head(pieces)) # <<>>
        THEN <<[name |-> Trim(Head(pieces)), type |-> "class"]>>
        ELSE <<>>) \o TokenRecords(Tail(pieces))

\* the body of the while loop of scanWorkspace for one regex match
ExtractMatch(m) ==
  IF Includes(m.content, <<" ">>)
  THEN TokenRecords(SplitWs(m.content, <<>>, FALSE))
  ELSE <<[name |-> m.content,
          type |-> IF Includes(MatchText(m), <<"i", "d", "=">>)
                   THEN "id" ELSE "class"]>>

\* all records of one document: its matches in text order
RECURSIVE ExtractDocument(_)
ExtractDocument(doc) ==
  IF doc = <<>> THEN <<>>
  ELSE ExtractMatch(Head(doc)) \o ExtractDocument(Tail(doc))

AttrClass == <<"c", "l", "a", "s", "s">>
AttrClassName == <<"c", "l", "a", "s", "s", "N", "a", "m", "e">>
AttrId == <<"i", "d">>
AttrNames == {AttrClass, AttrClassName, AttrId}


Names(recs) == {recs[i].name : i \in 1..Len(recs)}

\* results.push({name, type, file: relativePath, ...}) for every record of
\* the document (the line number is display-only and not modelled)
WithFile(recs, f) ==
  [i \in 1..Len(recs) |-> [name |-> recs[i].name, type |-> recs[i].type, file |-> f]]

(* ------------------------- runtime: bounds ----------------------------- *)
\* files findFiles enumerates
NumFiles == 2
\* edits of workspace files on disk explored in one behaviour
MaxFileEdits == 1
\* handleAutoInsert invocations that can be suspended at the same time
NumHandlers == 2
\* handlers of any kind suspended at an await at the same time
MaxActive == 2
\* contentChanges of one text-change event
MaxChanges == 2
\* empty attributes found in one content change
MaxMatches == 1

Handlers == 1..NumHandlers
Files == 1..NumFiles
\* identities of results arrays: one per suspended handler, the cached
\* array and the array last returned can all be alive at once
ScanIds == 1..(MaxActive + 2)

\* a prefix other than the default, as found in names of workspace files
PrefixA == <<"a">>

\* the random source of a call made by a handler: the same digest at every
\* attempt, which either returns that candidate or exhausts the attempts
DrawInputs == {x \in DrawPatterns : x.k = 0 /\ x.first = x.rest}

\* a prefix setting that itself holds an empty attribute: id=""
PrefixAttr == <<"i", "d", "=", "\"", "\"">>

\* values of the autoPrefix setting
PrefixSettings == {elem, PrefixAttr}

\* prefix and random source of a generateUniqueName call of a handler, for
\* every setting
GenInputsAll == {[prefix |-> p, draws |-> d] : p \in PrefixSettings, d \in DrawInputs}

\* documents a workspace file can hold: a sequence of attribute
\* assignments matched by classIdPattern
DocNone == <<>>
DocList ==
  <<[attr |-> AttrClass, content |-> FormatName(PrefixA, 0) \o <<" ">> \o <<"b">>],
    [attr |-> AttrId, content |-> FormatName(elem, 1)]>>
Docs == {DocNone, DocList}

\* every name a handler can find in the used-name set
NameUniverse ==
  {FormatName(g.prefix, d) : g \in GenInputsAll, d \in Digests}
    \cup UNION {Names(ExtractDocument(doc)) : doc \in Docs}

\* generateUniqueName for every used-name set and input of a handler
\* ("@@ <<>>" has TLC tabulate the function once instead of running the
\* loop again at every application)
GenOutcomes ==
  [u \in SUBSET NameUniverse, g \in GenInputsAll |->
     generateUniqueName(u, Given(g.prefix), g.draws)] @@ <<>>

\* text-change events: the number of empty attributes of each content change
EventInputs ==
  UNION {[1..n -> 0..MaxMatches] : n \in 1..MaxChanges}

VARIABLES
  usedNames,              \* NameGenerator.usedNames
  callLog,                \* calls made on the NameGenerator API, in order
  exIn, exOut,            \* argument and result of one extraction
  disk,                   \* text of every workspace file
  scan,                   \* scanWorkspace invocations: position and results
  cache,                  \* ClassIdScanner.cache.get("workspace-scan")
  hasSeededNames,
  isAutoInsertInProgress,
  pcCmd, pcRefresh, pcComp, pcAuto,   \* where each handler is suspended
  changes,                \* contentChanges a handleAutoInsert still has to visit
  pend,                   \* names inserted by the edit being applied
  generatedName,          \* generateUniqueClassName's local
  document,               \* names inserted into the active document
  watchPending,           \* a file-watch event is on its way
  fileEdits,
  staleScans,             \* live arrays of scans started before the latest clearCache
  gets,                   \* array returned by the latest getClassesAndIds call
  probe,                  \* the handler invocation under observation: its inputs
                          \* and the state it was entered in
  autoPrefix,             \* the setting: config.get("autoPrefix", "elem") || "elem"
  docText,                \* text of the active document
  typedCount              \* text-change events the user has caused

vars ==
  <<usedNames, callLog, exIn, exOut, disk, scan, cache,
    hasSeededNames, isAutoInsertInProgress, pcCmd, pcRefresh, pcComp, pcAuto,
    changes, pend, generatedName, document, watchPending, fileEdits,
    staleScans, gets, probe, autoPrefix, docText, typedCount>>

\* the state of the program: everything but the observation
state ==
  <<usedNames, callLog, exIn, exOut, disk, scan, cache,
    hasSeededNames, isAutoInsertInProgress, pcCmd, pcRefresh, pcComp, pcAuto,
    changes, pend, generatedName, document, watchPending, fileEdits,
    staleScans, gets, autoPrefix, docText, typedCount>>

\* prefix and random source of the calls made by the auto-insert trigger
\* (autoPrefixMode "fixed")
GenInputs == {[prefix |-> autoPrefix, draws |-> d] : d \in DrawInputs}

NoSnap == [id |-> 0, recs |-> <<>>]
NoOwner == [kind |-> "none", h |-> 0]
FreeSlot == [st |-> "free", next |-> 0, owner |-> NoOwner, results |-> <<>>]
NoMatch == [attr |-> AttrClass, content |-> <<>>]
NotExtracted == [done |-> FALSE, recs |-> <<>>]
NoProbe == [op |-> "none"]

\* the state after activation, the settings and the active document aside
InitProgram ==
  /\ usedNames = {}
  /\ callLog = <<>>
  /\ scan = [s \in ScanIds |-> FreeSlot]
  /\ cache = NoSnap
  /\ hasSeededNames = FALSE
  /\ isAutoInsertInProgress = FALSE
  /\ pcCmd = "idle"
  /\ pcRefresh = "idle"
  /\ pcComp = "idle"
  /\ pcAuto = [h \in Handlers |-> "idle"]
  /\ changes = [h \in Handlers |-> <<>>]
  /\ pend = [h \in Handlers |-> <<>>]
  /\ generatedName = <<>>
  /\ document = {}
  /\ watchPending = FALSE
  /\ fileEdits = 0
  /\ staleScans = {}
  /\ gets = 0
  /\ disk = [f \in Files |-> DocNone]
  /\ probe = NoProbe

\* the default settings and an empty active document
InitCommon ==
  /\ InitProgram
  /\ autoPrefix = elem
  /\ docText = <<>>
  /\ typedCount = 0

\* number of handlers suspended at an await
Active ==
  Cardinality({h \in Handlers : pcAuto[h] # "idle"})
    + (IF pcCmd # "idle" THEN 1 ELSE 0)
    + (IF pcRefresh # "idle" THEN 1 ELSE 0)
    + (IF pcComp # "idle" THEN 1 ELSE 0)

(* ------------------------ ClassIdScanner ------------------------------- *)
\* arrays something still refers to
LiveIds(c, g) == {s \in ScanIds : scan[s].st # "free"} \cup {c.id, g}

\* "const results = []": a new array, told apart from every live one
NewArray(c, g) == CHOOSE s \in ScanIds : s \notin LiveIds(c, g)

\* scanWorkspace up to its first openTextDocument call: findFiles returns
\* the same list of files at every call, so its await is not a step of its
\* own; c and g are the cache and the last returned array as the caller
\* leaves them
StartScan(owner, c, g, stale) ==
  LET s == NewArray(c, g)
  IN  /\ scan' = [scan EXCEPT ![s] =
                    [st |-> "reading", next |-> 1, owner |-> owner,
                     results |-> <<>>]]
      /\ staleScans' = stale \ {s}

\* a mutant of the place of cache.set: the array is stored while the loop
\* over the files is still running
PublishesEarly(next) == TRUE

\* cache.set runs after the loop over the files
Publishes(next) == next = NumFiles

\* the arrays that stay live and stale when this.cache.clear() runs
StaleAfterClear == {s \in ScanIds : scan[s].st # "free"}

\* a getClassesAndIds call returns the array "id"; "hit" says it came from
\* the cache.  A call that was invoked before the latest clearCache is not
\* compared with the calls after it.
GetsAfter(id, hit) == IF ~hit /\ id \in staleScans THEN 0 ELSE id

(* ------------------------ handleAutoInsert ----------------------------- *)
\* the edit callback: one generateUniqueName call per match; a throw ends
\* the callback, the names registered before it stay registered
RECURSIVE GenMany(_, _, _)
GenMany(used, gin, i) ==
  IF i > Len(gin) THEN [threw |-> FALSE, names |-> <<>>, used |-> used]
  ELSE LET r == GenOutcomes[used, gin[i]]
       IN  IF r.threw THEN [threw |-> TRUE, names |-> <<>>, used |-> used]
           ELSE LET rest == GenMany(r.used, gin, i + 1)
                IN  [threw |-> rest.threw,
                     names |-> IF rest.threw THEN <<>> ELSE <<r.name>> \o rest.names,
                     used |-> rest.used]

\* lines 159-181: the guard is set and editor.edit runs its callback
BeginEdit(used, seeded, chs, gin) ==
  LET r == GenMany(used, gin, 1)
  IN  [used |-> r.used, seeded |-> seeded, guard |-> TRUE,
       pc |-> IF r.threw THEN "idle" ELSE "editing",
       chs |-> IF r.threw THEN <<>> ELSE chs,
       pend |-> r.names, startScan |-> FALSE, got |-> 0]

\* a mutant of the seeding: the set is emptied before the names of the
\* snapshot are added
SeedThenEditFromScratch(used, chs, gin, snap) ==
  BeginEdit(Names(snap.recs), TRUE, chs, gin)

\* seedUsedNamesIfNeeded after getClassesAndIds returned "snap", then the edit
SeedThenEdit(used, chs, gin, snap) ==
  BeginEdit(used \cup Names(snap.recs), TRUE, chs, gin)

\* "await seedUsedNamesIfNeeded()" for the content change at the head of chs
EnterChange(used, guard, chs, gin) ==
  IF hasSeededNames THEN BeginEdit(used, TRUE, chs, gin)
  ELSE IF cache.id # 0
       THEN [SeedThenEdit(used, chs, gin, cache) EXCEPT !.got = cache.id]
       ELSE [used |-> used, seeded |-> FALSE, guard |-> guard, pc |-> "seeding",
             chs |-> chs, pend |-> <<>>, startScan |-> TRUE, got |-> 0]

\* the content changes without a match are skipped ("continue"): the
\* changes the loop still stops at
IsMatching(n) == n > 0
SkipEmpty(chs) == SelectSeq(chs, IsMatching)

\* the handler-local and generator state after a step of invocation h
SetHandler(h, r) ==
  /\ usedNames' = r.used
  /\ hasSeededNames' = r.seeded
  /\ isAutoInsertInProgress' = r.guard
  /\ pcAuto' = [pcAuto EXCEPT ![h] = r.pc]
  /\ changes' = [changes EXCEPT ![h] = r.chs]
  /\ pend' = [pend EXCEPT ![h] = r.pend]

GinFor(chs) == [1..Head(chs) -> GenInputs]

\* the scanner state after the step of a handler that called
\* getClassesAndIds (r.got) or has to await a scan (r.startScan)
SetScanner(h, r) ==
  LET g == IF r.got # 0 THEN GetsAfter(r.got, TRUE) ELSE gets
  IN  /\ gets' = g
      /\ IF r.startScan
         THEN StartScan([kind |-> "auto", h |-> h], cache, g, staleScans)
         ELSE UNCHANGED <<scan, staleScans>>

\* a mutant of line 103: the setting is not consulted
AutoReturnsEarlyOnGuardOnly(autoGenerate, guard) == guard

\* line 103: if (!autoGenerate || isAutoInsertInProgress) return
AutoReturnsEarly(autoGenerate, guard) == ~autoGenerate \/ guard

\* onDidChangeTextDocument -> handleAutoInsert, up to its first real await,
\* for the setting autoGenerate, a document that is or is not of an eligible
\* language, and the content changes "chs" that hold an empty attribute
AutoTriggerWith(h, autoGenerate, eligible, chs) ==
  /\ pcAuto[h] = "idle"
  /\ \A k \in Handlers : k < h => pcAuto[k] # "idle"
  /\ Active < MaxActive
  /\ IF AutoReturnsEarly(autoGenerate, isAutoInsertInProgress)
          \/ ~eligible \/ chs = <<>>
     THEN UNCHANGED state
     ELSE \E gin \in GinFor(chs) :
            \E r \in {EnterChange(usedNames, isAutoInsertInProgress, chs, gin)} :
                /\ SetHandler(h, r)
                /\ SetScanner(h, r)
                /\ UNCHANGED <<callLog, exIn, exOut, disk, cache, pcCmd,
                               pcRefresh, pcComp, generatedName, document,
                               watchPending, fileEdits,
                 autoPrefix, docText, typedCount>>

\* the content changes of the events: those without an empty attribute are
\* skipped by the loop
TriggerInputs == {SkipEmpty(ev) : ev \in EventInputs}

AutoTrigger(h) ==
  /\ \E chs \in TriggerInputs, autoGenerate \in BOOLEAN, eligible \in BOOLEAN :
       AutoTriggerWith(h, autoGenerate, eligible, chs)
  /\ UNCHANGED probe

\* the same handler, with the invocation recorded
AutoTriggerObserved(h) ==
  \E chs \in TriggerInputs, autoGenerate \in BOOLEAN, eligible \in BOOLEAN :
    /\ AutoTriggerWith(h, autoGenerate, eligible, chs)
    /\ probe' = [op |-> "auto", autoGenerate |-> autoGenerate,
                 matching |-> eligible /\ chs # <<>>]

\* editor.edit settles: line 182 runs only when the promise resolves
EditSettle(h) ==
  /\ pcAuto[h] = "editing"
  /\ \E outcome \in {"applied", "rejected"} :
       IF outcome = "rejected"
       THEN /\ pcAuto' = [pcAuto EXCEPT ![h] = "idle"]
            /\ changes' = [changes EXCEPT ![h] = <<>>]
            /\ pend' = [pend EXCEPT ![h] = <<>>]
            /\ UNCHANGED <<usedNames, callLog, exIn, exOut, probe, disk, scan,
                           cache, hasSeededNames, isAutoInsertInProgress, pcCmd,
                           pcRefresh, pcComp, generatedName, document,
                           watchPending, fileEdits, staleScans, gets,
                 autoPrefix, docText, typedCount>>
       ELSE LET rest == SkipEmpty(Tail(changes[h]))
            IN  /\ document' = document \cup SeqToSet(pend[h])
                /\ IF rest = <<>>
                   THEN /\ isAutoInsertInProgress' = FALSE
                        /\ pcAuto' = [pcAuto EXCEPT ![h] = "idle"]
                        /\ changes' = [changes EXCEPT ![h] = <<>>]
                        /\ pend' = [pend EXCEPT ![h] = <<>>]
                        /\ UNCHANGED <<usedNames, hasSeededNames, scan,
                                       staleScans, gets>>
                   ELSE \E gin \in GinFor(rest) :
                          \E r \in {EnterChange(usedNames, FALSE, rest, gin)} :
                              /\ SetHandler(h, r)
                              /\ SetScanner(h, r)
                /\ UNCHANGED <<callLog, exIn, exOut, probe, disk, cache, pcCmd, pcRefresh,
                               pcComp, generatedName, watchPending, fileEdits,
                 autoPrefix, docText, typedCount>>

(* ------------------- scanWorkspace, step by step ----------------------- *)
\* the continuation of the caller that awaited scan s, which returned snap
Deliver(s, owner, snap) ==
  CASE owner.kind = "cmd" ->
         \* generateUniqueClassName lines 30-36
         /\ usedNames' = usedNames \cup Names(snap.recs)
         /\ pcCmd' = "inputBox"
         /\ gets' = GetsAfter(s, FALSE)
         /\ UNCHANGED <<hasSeededNames, isAutoInsertInProgress, pcRefresh, pcComp,
                        pcAuto, changes, pend>>
    [] owner.kind = "comp" ->
         /\ pcComp' = "idle"
         /\ gets' = GetsAfter(s, FALSE)
         /\ UNCHANGED <<usedNames, hasSeededNames, isAutoInsertInProgress, pcCmd,
                        pcRefresh, pcAuto, changes, pend>>
    [] owner.kind = "refresh" ->
         \* refreshClassIdScan line 79
         /\ pcRefresh' = "idle"
         /\ UNCHANGED <<usedNames, hasSeededNames, isAutoInsertInProgress, pcCmd,
                        pcComp, pcAuto, changes, pend, gets>>
    [] owner.kind = "auto" ->
         \* seedUsedNamesIfNeeded lines 90-93, handleAutoInsert lines 159-181
         /\ \E gin \in GinFor(changes[owner.h]) :
              \E r \in {SeedThenEdit(usedNames, changes[owner.h], gin, snap)} :
                SetHandler(owner.h, r)
         /\ gets' = GetsAfter(s, FALSE)
         /\ UNCHANGED <<pcCmd, pcRefresh, pcComp>>

\* scanWorkspace rejects: the rejection reaches the caller that awaited it.
\* The command, the refresh command and handleAutoInsert have no handler for
\* it and end there; the completion providers catch it and return undefined.
Reject(owner) ==
  CASE owner.kind = "cmd" ->
         /\ pcCmd' = "idle"
         /\ UNCHANGED <<pcRefresh, pcComp, pcAuto, changes>>
    [] owner.kind = "comp" ->
         /\ pcComp' = "idle"
         /\ UNCHANGED <<pcCmd, pcRefresh, pcAuto, changes>>
    [] owner.kind = "refresh" ->
         /\ pcRefresh' = "idle"
         /\ UNCHANGED <<pcCmd, pcComp, pcAuto, changes>>
    [] owner.kind = "auto" ->
         /\ pcAuto' = [pcAuto EXCEPT ![owner.h] = "idle"]
         /\ changes' = [changes EXCEPT ![owner.h] = <<>>]
         /\ UNCHANGED <<pcCmd, pcRefresh, pcComp>>

\* openTextDocument settles for the next file.  Resolved: the matches of the
\* file are pushed, and after the last file the array is stored and
\* returned.  Rejected: nothing catches the rejection inside scanWorkspace,
\* which ends without reading the other files and without cache.set.
ScanRead(s) ==
  /\ scan[s].st = "reading"
  /\ \E opened \in BOOLEAN :
       IF opened
       THEN LET f == scan[s].next
                results == scan[s].results \o WithFile(ExtractDocument(disk[f]), f)
                snap == [id |-> s, recs |-> results]
            IN  /\ cache' = IF Publishes(f) THEN snap ELSE cache
                /\ IF f = NumFiles
                   THEN /\ scan' = [scan EXCEPT ![s] = FreeSlot]
                        /\ Deliver(s, scan[s].owner, snap)
                   ELSE /\ scan' = [scan EXCEPT ![s].next = f + 1,
                                                ![s].results = results]
                        /\ UNCHANGED <<usedNames, hasSeededNames,
                                       isAutoInsertInProgress, pcCmd, pcRefresh,
                                       pcComp, pcAuto, changes, pend, gets>>
       ELSE /\ scan' = [scan EXCEPT ![s] = FreeSlot]
            /\ Reject(scan[s].owner)
            /\ UNCHANGED <<cache, usedNames, hasSeededNames,
                           isAutoInsertInProgress, pend, gets>>
  /\ UNCHANGED <<callLog, exIn, exOut, probe, disk, generatedName, document,
                 watchPending, fileEdits, staleScans,
                 autoPrefix, docText, typedCount>>

(* --------------------- generateUniqueClassName ------------------------- *)
\* a mutant of lines 17-27: the language of the document is not tested
CmdHasContextAnyLanguage(hasEditor, eligible) == hasEditor

\* lines 11-27: an active editor whose document is of an eligible language
CmdHasContext(hasEditor, eligible) == hasEditor /\ eligible

\* the command up to "await getClassesAndIds()" / "await showInputBox()",
\* with or without an active editor, whose document is or is not of an
\* eligible language
CmdStartWith(hasEditor, eligible) ==
  /\ pcCmd = "idle"
  /\ Active < MaxActive
  /\ IF ~CmdHasContext(hasEditor, eligible)
     THEN UNCHANGED state
     ELSE /\ IF cache.id # 0
             THEN /\ usedNames' = usedNames \cup Names(cache.recs)
                  /\ pcCmd' = "inputBox"
                  /\ gets' = GetsAfter(cache.id, TRUE)
                  /\ UNCHANGED <<scan, staleScans>>
             ELSE /\ StartScan([kind |-> "cmd", h |-> 0], cache, gets, staleScans)
                  /\ pcCmd' = "scanning"
                  /\ UNCHANGED <<usedNames, gets>>
          /\ UNCHANGED <<callLog, exIn, exOut, disk, cache, hasSeededNames,
                         isAutoInsertInProgress, pcRefresh, pcComp, pcAuto,
                         changes, pend, generatedName, document, watchPending,
                         fileEdits,
                 autoPrefix, docText, typedCount>>

CmdStart ==
  /\ \E hasEditor \in BOOLEAN, eligible \in BOOLEAN :
       CmdStartWith(hasEditor, eligible)
  /\ UNCHANGED probe

\* the same handler, with the invocation and the state it found recorded
CmdStartObserved ==
  \E hasEditor \in BOOLEAN, eligible \in BOOLEAN :
    /\ CmdStartWith(hasEditor, eligible)
    /\ probe' = [op |-> "cmd", hasEditor |-> hasEditor, eligible |-> eligible,
                 used |-> usedNames, cache |-> cache, seeded |-> hasSeededNames,
                 doc |-> document]

\* showInputBox resolves: undefined (dismissed) or the text typed
CmdInputBox ==
  /\ pcCmd = "inputBox"
  /\ \E input \in {Omitted} \cup {Given(p) : p \in {<<>>, elem}} :
       IF ~input.given
       THEN /\ pcCmd' = "idle"
            /\ UNCHANGED <<usedNames, generatedName>>
       ELSE \E draws \in DrawInputs :
              \E r \in {GenOutcomes[usedNames,
                          [prefix |-> IF input.val = <<>> THEN elem ELSE input.val,
                           draws |-> draws]]} :
                  /\ usedNames' = r.used
                  /\ generatedName' = r.name
                  /\ pcCmd' = IF r.threw THEN "idle" ELSE "quickPick"
  /\ UNCHANGED <<callLog, exIn, exOut, probe, disk, scan, cache,
                 hasSeededNames, isAutoInsertInProgress, pcRefresh, pcComp,
                 pcAuto, changes, pend, document, watchPending, fileEdits,
                 staleScans, gets,
                 autoPrefix, docText, typedCount>>

\* showQuickPick resolves; the edit is not awaited
CmdQuickPick ==
  /\ pcCmd = "quickPick"
  /\ \E selection \in {"", "class", "id"} :
       /\ document' = IF selection # ""
                      THEN document \cup {generatedName} ELSE document
       /\ generatedName' = <<>>
       /\ pcCmd' = "idle"
  /\ UNCHANGED <<usedNames, callLog, exIn, exOut, probe, disk, scan, cache,
                 hasSeededNames, isAutoInsertInProgress, pcRefresh, pcComp,
                 pcAuto, changes, pend, watchPending, fileEdits, staleScans,
                 gets,
                 autoPrefix, docText, typedCount>>

(* ------------------- refresh, completion, watcher ---------------------- *)
\* refreshClassIdScan up to "await scanWorkspace()"
RefreshStartBody ==
  /\ pcRefresh = "idle"
  /\ Active < MaxActive
  /\ cache' = NoSnap
  /\ gets' = 0
  /\ StartScan([kind |-> "refresh", h |-> 0], NoSnap, 0, StaleAfterClear)
  /\ pcRefresh' = "scanning"
  /\ UNCHANGED <<usedNames, callLog, exIn, exOut, disk, hasSeededNames,
                 isAutoInsertInProgress, pcCmd, pcComp, pcAuto, changes, pend,
                 generatedName, document, watchPending, fileEdits,
                 autoPrefix, docText, typedCount>>

RefreshStart == RefreshStartBody /\ UNCHANGED probe

\* provideCompletionItems up to "await getClassesAndIds()"
CompRequestBody ==
  /\ pcComp = "idle"
  /\ Active < MaxActive
  /\ IF cache.id # 0
     THEN /\ gets' = GetsAfter(cache.id, TRUE)
          /\ UNCHANGED <<scan, staleScans, pcComp>>
     ELSE /\ StartScan([kind |-> "comp", h |-> 0], cache, gets, staleScans)
          /\ pcComp' = "scanning"
          /\ UNCHANGED gets
  /\ UNCHANGED <<usedNames, callLog, exIn, exOut, disk, cache, hasSeededNames,
                 isAutoInsertInProgress, pcCmd, pcRefresh, pcAuto, changes, pend,
                 generatedName, document, watchPending, fileEdits,
                 autoPrefix, docText, typedCount>>

CompRequest == CompRequestBody /\ UNCHANGED probe

\* the scans that are running or whose array is in the cache, in the order
\* in which they started, as observed so far
StartOrder == IF probe.op = "scans" THEN probe.order ELSE <<>>

\* the observation after a step that may have started a scan
ObserveScans ==
  LET started == {s \in ScanIds : scan[s].st = "free" /\ scan'[s].st = "reading"}
      Kept(s) == s \notin started /\ (scan'[s].st # "free" \/ cache'.id = s)
      new == IF started = {} THEN <<>> ELSE <<CHOOSE s \in started : TRUE>>
  IN  probe' = [op |-> "scans", order |-> SelectSeq(StartOrder, Kept) \o new]

\* the same handlers, with the order in which scans start recorded
RefreshStartObserved == RefreshStartBody /\ ObserveScans
CompRequestObserved == CompRequestBody /\ ObserveScans

\* a watched file is created, changed or deleted on disk
FileChange ==
  /\ fileEdits < MaxFileEdits
  /\ \E f \in Files, d \in Docs :
       /\ d # disk[f]
       /\ disk' = [disk EXCEPT ![f] = d]
  /\ fileEdits' = fileEdits + 1
  /\ watchPending' = TRUE
  /\ UNCHANGED <<usedNames, callLog, exIn, exOut, probe, scan, cache,
                 hasSeededNames, isAutoInsertInProgress, pcCmd, pcRefresh,
                 pcComp, pcAuto, changes, pend, generatedName, document,
                 staleScans, gets,
                 autoPrefix, docText, typedCount>>

\* watcher.onDidChange / onDidCreate / onDidDelete
WatcherEvent ==
  /\ watchPending
  /\ watchPending' = FALSE
  /\ cache' = NoSnap
  /\ gets' = 0
  /\ staleScans' = StaleAfterClear
  /\ hasSeededNames' = FALSE
  /\ UNCHANGED <<usedNames, callLog, exIn, exOut, probe, disk, scan,
                 isAutoInsertInProgress, pcCmd, pcRefresh, pcComp, pcAuto,
                 changes, pend, generatedName, document, fileEdits,
                 autoPrefix, docText, typedCount>>

\* the extension is activated in a workspace whose files hold no class or id
Init ==
  /\ InitCommon
  /\ exIn = NoMatch
  /\ exOut = NotExtracted

\* every handler activate() registers
Next ==
  \/ \E h \in Handlers : AutoTrigger(h)
  \/ \E h \in Handlers : EditSettle(h)
  \/ \E s \in ScanIds : ScanRead(s)
  \/ CmdStart
  \/ CmdInputBox
  \/ CmdQuickPick
  \/ RefreshStart
  \/ CompRequest
  \/ FileChange
  \/ WatcherEvent

Spec == Init /\ [][Next]_vars

\* the ClassIdScanner with its readers: completion requests, the refresh
\* command and the file watcher
NextIndex ==
  \/ \E s \in ScanIds : ScanRead(s)
  \/ CompRequest
  \/ RefreshStart
  \/ FileChange
  \/ WatcherEvent

SpecIndex == Init /\ [][NextIndex]_vars


\* the ClassIdScanner with its readers, with the order of the scans observed
NextOverlap ==
  \/ \E s \in ScanIds : ScanRead(s)
  \/ CompRequestObserved
  \/ RefreshStartObserved
  \/ FileChange
  \/ WatcherEvent

SpecOverlap == Init /\ [][NextOverlap]_vars

\* the manual command, observed, in a workspace whose files change
NextCmd ==
  \/ CmdStartObserved
  \/ CmdInputBox
  \/ CmdQuickPick
  \/ \E s \in ScanIds : ScanRead(s)
  \/ FileChange
  \/ WatcherEvent

SpecCmd == Init /\ [][NextCmd]_vars

\* no handler is suspended at an await
Quiet == Active = 0

\* the auto-insert trigger, observed, in a workspace whose files change;
\* each text-change event arrives after the previous one has been handled
NextAuto ==
  \/ \E h \in Handlers : Quiet /\ AutoTriggerObserved(h)
  \/ \E h \in Handlers : EditSettle(h)
  \/ \E s \in ScanIds : ScanRead(s)
  \/ FileChange
  \/ WatcherEvent

SpecAuto == Init /\ [][NextAuto]_vars

\* every handler, each entered while no other handler is suspended
NextSolo ==
  \/ \E h \in Handlers : Quiet /\ AutoTrigger(h)
  \/ \E h \in Handlers : EditSettle(h)
  \/ \E s \in ScanIds : ScanRead(s)
  \/ Quiet /\ CmdStart
  \/ CmdInputBox
  \/ CmdQuickPick
  \/ Quiet /\ RefreshStart
  \/ Quiet /\ CompRequest
  \/ FileChange
  \/ WatcherEvent

SpecSolo == Init /\ [][NextSolo]_vars

(* ---------------- the NameGenerator class on its own ------------------- *)
\* arguments of generateUniqueName: omitted, empty, or a prefix
ApiArgs == {Omitted, Given(<<>>), Given(elem)}

ApiPrefix(arg) == IF arg.given THEN arg.val ELSE elem

\* names passed to addUsedName: names of the generated form and another one
PlainName == <<"x">>
ApiNames ==
  {FormatName(ApiPrefix(a), d) : a \in ApiArgs, d \in Digests} \cup {PlainName}

\* generateUniqueName for every used-name set, argument and random source
\* ("@@ <<>>" has TLC tabulate the function once)
ApiOutcomes ==
  [u \in SUBSET ApiNames, a \in ApiArgs, d \in DrawPatterns |->
     generateUniqueName(u, a, d)] @@ <<>>

\* a call of generateUniqueName with the argument "arg", the random source
\* yielding "draws"
GenerateCallWith(arg, draws) ==
  /\ Len(callLog) < MaxCalls
  /\ \E r \in {ApiOutcomes[usedNames, arg, draws]} :
       /\ usedNames' = r.used
       /\ callLog' = Append(callLog,
                       [op |-> "generate", arg |-> arg, name |-> r.name,
                        threw |-> r.threw, attempts |-> r.attempts])
  /\ UNCHANGED <<exIn, exOut, disk, scan, cache, hasSeededNames,
                 isAutoInsertInProgress, pcCmd, pcRefresh, pcComp, pcAuto,
                 changes, pend, generatedName, document, watchPending,
                 fileEdits, staleScans, gets,
                 autoPrefix, docText, typedCount>>

\* a call of generateUniqueName
GenerateCall ==
  /\ \E arg \in ApiArgs, draws \in DrawPatterns : GenerateCallWith(arg, draws)
  /\ UNCHANGED probe

\* the same call, with the digests it drew recorded
GenerateCallObserved ==
  \E arg \in ApiArgs, draws \in DrawPatterns :
    /\ GenerateCallWith(arg, draws)
    /\ probe' = [op |-> "generate", draws |-> draws]

\* a call of addUsedName
AddUsedNameCall ==
  /\ Len(callLog) < MaxCalls
  /\ \E n \in ApiNames :
       /\ usedNames' = addUsedName(usedNames, n)
       /\ callLog' = Append(callLog,
                       [op |-> "add", arg |-> Given(n), name |-> n,
                        threw |-> FALSE, attempts |-> 0])
  /\ UNCHANGED <<exIn, exOut, probe, disk, scan, cache, hasSeededNames,
                 isAutoInsertInProgress, pcCmd, pcRefresh, pcComp, pcAuto,
                 changes, pend, generatedName, document, watchPending,
                 fileEdits, staleScans, gets,
                 autoPrefix, docText, typedCount>>

NextGen == GenerateCall \/ AddUsedNameCall

SpecGen == Init /\ [][NextGen]_vars

\* a mutant of clear: the names stay
clearKeepsNames(used) == used

\* clear(): this.usedNames.clear()
clear(used) == {}

\* a mutant of getUsedNames: the first name is left out
RECURSIVE getUsedNamesButOne(_)
getUsedNamesButOne(used) ==
  IF used = {} THEN <<>>
  ELSE LET n == CHOOSE n \in used : TRUE
           rest == used \ {n}
       IN  IF rest = {} THEN <<>>
           ELSE LET m == CHOOSE m \in rest : TRUE
                IN  <<m>> \o getUsedNamesButOne(rest \ {m})

\* getUsedNames(): Array.from(this.usedNames), every member of the Set once
\* (the order, that of insertion, is not tracked)
RECURSIVE getUsedNames(_)
getUsedNames(used) ==
  IF used = {} THEN <<>>
  ELSE LET n == CHOOSE n \in used : TRUE
       IN  <<n>> \o getUsedNames(used \ {n})

\* a call of clear
ClearCall ==
  /\ Len(callLog) < MaxCalls
  /\ usedNames' = clear(usedNames)
  /\ callLog' = Append(callLog,
                  [op |-> "clear", arg |-> Omitted, name |-> <<>>,
                   threw |-> FALSE, attempts |-> 0])
  /\ UNCHANGED <<exIn, exOut, probe, disk, scan, cache, hasSeededNames,
                 isAutoInsertInProgress, pcCmd, pcRefresh, pcComp, pcAuto,
                 changes, pend, generatedName, document, watchPending,
                 fileEdits, staleScans, gets,
                 autoPrefix, docText, typedCount>>

\* a call of getUsedNames, with the array it returned recorded
GetUsedNamesCall ==
  /\ Len(callLog) < MaxCalls
  /\ probe' = [op |-> "get", result |-> getUsedNames(usedNames)]
  /\ callLog' = Append(callLog,
                  [op |-> "get", arg |-> Omitted, name |-> <<>>,
                   threw |-> FALSE, attempts |-> 0])
  /\ UNCHANGED <<usedNames, exIn, exOut, disk, scan, cache, hasSeededNames,
                 isAutoInsertInProgress, pcCmd, pcRefresh, pcComp, pcAuto,
                 changes, pend, generatedName, document, watchPending,
                 fileEdits, staleScans, gets,
                 autoPrefix, docText, typedCount>>

\* no call has been observed yet
Unobserved == probe = NoProbe

\* one generateUniqueName call with its draws observed, on a set that
\* callers have added names to
NextDraw ==
  \/ Unobserved /\ GenerateCallObserved
  \/ Unobserved /\ AddUsedNameCall

SpecDraw == Init /\ [][NextDraw]_vars

\* the whole API of the class
NextApi == GenerateCall \/ AddUsedNameCall \/ ClearCall \/ GetUsedNamesCall

SpecApi == Init /\ [][NextApi]_vars

(* ------------------ the extraction of one match ------------------------ *)
ContentChars == {"a", " ", "\t", "i", "d", "="}

\* match[1] of classIdPattern: one or more characters other than quotes
ContentInputs == UNION {[1..n -> ContentChars] : n \in 1..MaxContentLen}

MatchInputs == [attr : AttrNames, content : ContentInputs]

InitExtract ==
  /\ InitCommon
  /\ exIn \in MatchInputs
  /\ exOut = NotExtracted

\* the loop body of scanWorkspace applied to the match
Extract ==
  /\ ~exOut.done
  /\ exOut' = [done |-> TRUE, recs |-> ExtractMatch(exIn)]
  /\ UNCHANGED <<usedNames, callLog, exIn, probe, disk, scan, cache, hasSeededNames,
                 isAutoInsertInProgress, pcCmd, pcRefresh, pcComp, pcAuto,
                 changes, pend, generatedName, document, watchPending,
                 fileEdits, staleScans, gets,
                 autoPrefix, docText, typedCount>>

SpecExtract == InitExtract /\ [][Extract]_vars


(* ------------------- the completion providers -------------------------- *)
\* selectorType: "." asks for classes, "#" for ids
SelectorType(trigger) == IF trigger = "." THEN "class" ELSE "id"

\* CompletionItemKind.Class for a class, CompletionItemKind.Field for an id
ItemKind(selectorType) == IF selectorType = "class" THEN "Class" ELSE "Field"

\* the forEach over the records: a record whose kind is wanted and whose name
\* is not yet in the Map of unique items yields an item; typedLen is the
\* length of the replaced range
RECURSIVE UniqueItems(_, _, _, _)
UniqueItems(recs, wanted, typedLen, seen) ==
  IF recs = <<>> THEN <<>>
  ELSE IF Head(recs).type \in wanted /\ Head(recs).name \notin seen
       THEN <<[label |-> Head(recs).name, kind |-> ItemKind(Head(recs).type),
               range |-> typedLen]>>
              \o UniqueItems(Tail(recs), wanted, typedLen,
                             seen \cup {Head(recs).name})
       ELSE UniqueItems(Tail(recs), wanted, typedLen, seen)

\* a mutant of the providers: the records are not filtered by kind
CompletionItemsAnyKind(items, trigger, typedPart) ==
  UniqueItems(items, {"class", "id"}, Len(typedPart), {})

\* provideCompletionItems after getClassesAndIds returned "items": the typed
\* part only sets the range the chosen item replaces
CompletionItems(items, trigger, typedPart) ==
  UniqueItems(items, {SelectorType(trigger)}, Len(typedPart), {})

\* <div class="card highlight">
Card == <<"c", "a", "r", "d">>
Highlight == <<"h", "i", "g", "h", "l", "i", "g", "h", "t">>
DocCard == <<[attr |-> AttrClass, content |-> Card \o <<" ">> \o Highlight]>>

\* the array a scan of the files "d" returns
RECURSIVE ScanFrom(_, _)
ScanFrom(d, f) ==
  IF f > NumFiles THEN <<>>
  ELSE WithFile(ExtractDocument(d[f]), f) \o ScanFrom(d, f + 1)

\* what has been typed after the "." or "#"
TypedInputs == {<<>>, <<"c">>, <<"c", "a">>, <<"z">>}

\* completion requests: the files the snapshot was scanned from, the
\* character that asks for classes or ids, and the typed part
CompletionInputs ==
  [disk : [Files -> Docs \cup {DocCard}], trigger : {".", "#"}, typed : TypedInputs]

InitComplete ==
  /\ InitCommon
  /\ exIn \in CompletionInputs
  /\ exOut = NotExtracted

\* the provider assembles its list from the snapshot
Complete ==
  /\ ~exOut.done
  /\ exOut' = [done |-> TRUE,
               recs |-> CompletionItems(ScanFrom(exIn.disk, 1), exIn.trigger,
                                        exIn.typed)]
  /\ UNCHANGED <<usedNames, callLog, exIn, probe, disk, scan, cache,
                 hasSeededNames, isAutoInsertInProgress, pcCmd, pcRefresh, pcComp,
                 pcAuto, changes, pend, generatedName, document, watchPending,
                 fileEdits, staleScans, gets,
                 autoPrefix, docText, typedCount>>

SpecComplete == InitComplete /\ [][Complete]_vars

(* --------------------- the prefix of an inserted name ------------------ *)
\* longest text before the insertion position explored character by character
MaxTextLen == 4

\* [a-zA-Z]
Letters ==
  {"a", "b", "c", "d", "e", "f", "g", "h", "i", "j", "k", "l", "m", "n", "o",
   "p", "q", "r", "s", "t", "u", "v", "w", "x", "y", "z",
   "A", "B", "C", "D", "E", "F", "G", "H", "I", "J", "K", "L", "M", "N", "O",
   "P", "Q", "R", "S", "T", "U", "V", "W", "X", "Y", "Z"}

\* [\w:-]
TagChars ==
  Letters \cup {"0", "1", "2", "3", "4", "5", "6", "7", "8", "9", "_", ":", "-"}

\* ([a-zA-Z][\w:-]*) at position i: the longest run of tag characters
RECURSIVE TagRun(_, _)
TagRun(text, i) ==
  IF i <= Len(text) /\ text[i] \in TagChars
  THEN <<text[i]>> \o TagRun(text, i + 1)
  ELSE <<>>

\* /<([a-zA-Z][\w:-]*)[^>]*$/ can match from position i
TagMatchesAt(text, i) ==
  /\ text[i] = "<"
  /\ i < Len(text)
  /\ text[i + 1] \in Letters
  /\ \A j \in (i + 1)..Len(text) : text[j] # ">"

\* a mutant of the search: the match that starts last is taken
getTagNameNearest(text) ==
  IF \E i \in 1..Len(text) : TagMatchesAt(text, i)
  THEN LET i == CHOOSE i \in 1..Len(text) :
                  /\ TagMatchesAt(text, i)
                  /\ \A j \in (i + 1)..Len(text) : ~TagMatchesAt(text, j)
       IN  TagRun(text, i + 1)
  ELSE <<>>

\* getTagNameBeforePosition: RegExp.exec returns the match that starts
\* first; <<>> stands for undefined (a match is never empty)
getTagNameBeforePosition(text) ==
  IF \E i \in 1..Len(text) : TagMatchesAt(text, i)
  THEN LET i == CHOOSE i \in 1..Len(text) :
                  /\ TagMatchesAt(text, i)
                  /\ \A j \in 1..(i - 1) : ~TagMatchesAt(text, j)
       IN  TagRun(text, i + 1)
  ELSE <<>>

\* config.get("autoPrefix", "elem") || "elem"
AutoPrefix(setting) ==
  IF setting.given /\ setting.val # <<>> THEN setting.val ELSE elem

\* tagPrefix of handleAutoInsert for the text before the insertion position
TagPrefix(autoPrefixMode, setting, text) ==
  IF autoPrefixMode = "element"
  THEN IF getTagNameBeforePosition(text) # <<>>
       THEN getTagNameBeforePosition(text)
       ELSE AutoPrefix(setting)
  ELSE AutoPrefix(setting)

\* <section class="
SectionText ==
  <<"<", "s", "e", "c", "t", "i", "o", "n", " ",
    "c", "l", "a", "s", "s", "=", "\"">>

TextChars == {"<", ">", "s", "d", " "}

\* texts between the start of the document and the insertion position
TextInputs ==
  UNION {[1..n -> TextChars] : n \in 0..MaxTextLen} \cup {SectionText}

\* the settings as configured: autoPrefix unset, empty or "x"
PrefixInputs ==
  [mode : {"fixed", "element"},
   setting : {Omitted, Given(<<>>), Given(<<"x">>)},
   text : TextInputs]

InitPrefix ==
  /\ InitCommon
  /\ exIn \in PrefixInputs
  /\ exOut = NotExtracted

\* the edit callback computes the prefix of one insertion and generates the
\* name
InsertPrefix ==
  /\ ~exOut.done
  /\ \E d \in Digests :
       exOut' = [done |-> TRUE,
                 recs |-> FormatName(TagPrefix(exIn.mode, exIn.setting, exIn.text), d)]
  /\ UNCHANGED <<usedNames, callLog, exIn, probe, disk, scan, cache,
                 hasSeededNames, isAutoInsertInProgress, pcCmd, pcRefresh, pcComp,
                 pcAuto, changes, pend, generatedName, document, watchPending,
                 fileEdits, staleScans, gets,
                 autoPrefix, docText, typedCount>>

SpecPrefix == InitPrefix /\ [][InsertPrefix]_vars

(* ------------- handleAutoInsert on the text of the document ------------ *)
\* text-change events caused by the user
MaxTyped == 2
\* longest document the user's typing leads to
MaxDocLen == 11

Quotes == {"\"", "'"}

\* (class|className|id): the alternatives in the order the pattern tries them
AttrAlternatives == <<AttrClass, AttrClassName, AttrId>>

\* "text" holds "pat" at the 0-based index i
HoldsAt(text, i, pat) ==
  /\ i >= 0
  /\ i + Len(pat) <= Len(text)
  /\ \A j \in 1..Len(pat) : text[i + j] = pat[j]

\* /(class|className|id)=(['"])\2/ matches at index i with the alternative a
AttrMatchesWith(text, i, a) ==
  /\ HoldsAt(text, i, a \o <<"=">>)
  /\ i + Len(a) + 3 <= Len(text)
  /\ text[i + Len(a) + 2] \in Quotes
  /\ text[i + Len(a) + 3] = text[i + Len(a) + 2]

\* match[1] of the match at index i (<<>>: the pattern does not match there)
AttrAt(text, i) ==
  IF \E k \in 1..3 : AttrMatchesWith(text, i, AttrAlternatives[k])
  THEN AttrAlternatives[CHOOSE k \in 1..3 :
                          /\ AttrMatchesWith(text, i, AttrAlternatives[k])
                          /\ \A m \in 1..(k - 1) :
                               ~AttrMatchesWith(text, i, AttrAlternatives[m])]
  ELSE <<>>

\* while ((match = attributePattern.exec(change.text)) !== null): the
\* matches from index i on, in text order
RECURSIVE AttributeMatches(_, _)
AttributeMatches(text, i) ==
  IF i >= Len(text) THEN <<>>
  ELSE IF AttrAt(text, i) # <<>>
       THEN <<[index |-> i, attribute |-> AttrAt(text, i), direct |-> FALSE,
               position |-> 0]>>
              \o AttributeMatches(text, i + Len(AttrAt(text, i)) + 3)
       ELSE AttributeMatches(text, i + 1)

\* trailing whitespace removed: the \s* of the pattern below
RECURSIVE TrimEnd(_)
TrimEnd(t) ==
  IF t # <<>> /\ IsWs(t[Len(t)]) THEN TrimEnd(SubSeq(t, 1, Len(t) - 1)) ELSE t

\* (?:^|\s)(class|className|id) at the end of t
EndsWithAttr(t) ==
  \E k \in 1..3 :
    LET a == AttrAlternatives[k]
    IN  /\ HoldsAt(t, Len(t) - Len(a), a)
        /\ (Len(t) = Len(a) \/ IsWs(t[Len(t) - Len(a)]))

\* /(?:^|\s)(class|className|id)\s*=\s*$/ matches beforeQuote
EmptyAttributeBefore(beforeQuote) ==
  LET t == TrimEnd(beforeQuote)
  IN  /\ t # <<>>
      /\ t[Len(t)] = "="
      /\ EndsWithAttr(TrimEnd(SubSeq(t, 1, Len(t) - 1)))

\* match[1] of that match
AttributeBefore(beforeQuote) ==
  LET t == TrimEnd(beforeQuote)
      u == TrimEnd(SubSeq(t, 1, Len(t) - 1))
  IN  AttrAlternatives[CHOOSE k \in 1..3 :
                         /\ HoldsAt(u, Len(u) - Len(AttrAlternatives[k]),
                                    AttrAlternatives[k])
                         /\ (Len(u) = Len(AttrAlternatives[k])
                               \/ IsWs(u[Len(u) - Len(AttrAlternatives[k])]))]

\* getEmptyAttributeAtPosition returns an object (its insertPosition is the
\* position passed); the document is one line
getEmptyAttributeAtPosition(text, charIndex) ==
  /\ charIndex > 0
  /\ charIndex < Len(text)
  /\ text[charIndex + 1] \in Quotes
  /\ text[charIndex] = text[charIndex + 1]
  /\ EmptyAttributeBefore(SubSeq(text, 1, charIndex - 1))

\* document.offsetAt / positionAt of a one-line document: clamped to the text
OffsetAt(text, character) == IF character > Len(text) THEN Len(text) ELSE character

\* lines 120-151: the matches of one content change, found in its text or,
\* when there is none, by getEmptyAttributeAtPosition after the change
MatchesOf(text, change) ==
  IF change.text = <<>> THEN <<>>
  ELSE IF AttributeMatches(change.text, 0) # <<>>
       THEN AttributeMatches(change.text, 0)
       ELSE LET pos == OffsetAt(text, OffsetAt(text, change.start) + Len(change.text))
            IN  IF getEmptyAttributeAtPosition(text, pos)
                THEN <<[index |-> 0,
                        attribute |-> AttributeBefore(SubSeq(text, 1, pos - 1)),
                        direct |-> TRUE,
                        position |-> pos]>>
                ELSE <<>>

\* the loop over event.contentChanges up to the next change with a match,
\* whose matches are kept with it
RECURSIVE Visit(_, _)
Visit(text, chs) ==
  IF chs = <<>> THEN <<>>
  ELSE IF MatchesOf(text, Head(chs)) = <<>> THEN Visit(text, Tail(chs))
       ELSE <<[Head(chs) EXCEPT !.matches = MatchesOf(text, Head(chs))]>>
              \o Tail(chs)

\* a mutant of the sort: the matches stay in text order
SortKeepsOrder(ms) == ms

\* .sort((a, b) => (b.index ?? 0) - (a.index ?? 0))
RECURSIVE SortByIndexDesc(_)
SortByIndexDesc(ms) ==
  IF ms = <<>> THEN <<>>
  ELSE LET k == CHOOSE k \in 1..Len(ms) :
                  /\ \A j \in 1..Len(ms) : ms[j].index <= ms[k].index
                  /\ \A j \in 1..(k - 1) : ms[j].index < ms[k].index
       IN  <<ms[k]>> \o SortByIndexDesc([i \in 1..(Len(ms) - 1) |->
                                           IF i < k THEN ms[i] ELSE ms[i + 1]])

IsIndexed(item) == ~item.direct
IsDirect(item) == item.direct

\* [...sortedMatches, ...directMatches]
ProcessingOrder(ms) ==
  SortByIndexDesc(SelectSeq(ms, IsIndexed)) \o SelectSeq(ms, IsDirect)

\* insertPosition of one item, as an offset in the document
InsertOffset(text, change, item) ==
  IF item.direct THEN item.position
  ELSE OffsetAt(text, OffsetAt(text, change.start) + item.index
                        + Len(item.attribute) + 1 + 1)

\* the editBuilder.insert calls of the callback, in the order they are made
Inserts(text, change, names) ==
  LET order == ProcessingOrder(change.matches)
  IN  [i \in 1..Len(order) |->
         [offset |-> InsertOffset(text, change, order[i]), name |-> names[i]]]

InsertAt(text, offset, str) ==
  SubSeq(text, 1, offset) \o str \o SubSeq(text, offset + 1, Len(text))

\* the inserts of one edit applied to the text they refer to
RECURSIVE ApplyInserts(_, _)
ApplyInserts(text, ins) ==
  IF ins = <<>> THEN text
  ELSE LET k == CHOOSE k \in 1..Len(ins) :
                  /\ \A j \in 1..Len(ins) : ins[j].offset <= ins[k].offset
                  /\ \A j \in (k + 1)..Len(ins) : ins[j].offset < ins[k].offset
       IN  ApplyInserts(InsertAt(text, ins[k].offset, ins[k].name),
                        [i \in 1..(Len(ins) - 1) |->
                           IF i < k THEN ins[i] ELSE ins[i + 1]])

\* lines 159-181 on the text: the guard is set, the callback generates one
\* name per match and inserts it
TextEdit(used, text, chs, gin) ==
  LET r == GenMany(used, gin, 1)
  IN  [used |-> r.used,
       pc |-> IF r.threw THEN "idle" ELSE "editing",
       chs |-> IF r.threw THEN <<>> ELSE chs,
       pend |-> IF r.threw THEN <<>> ELSE Inserts(text, Head(chs), r.names)]

(* what the user types *)
IdOpen == <<"i", "d", "=", "\"">>
IdEmpty == <<"i", "d", "=", "\"", "\"">>
TwoEmpty == IdEmpty \o <<"i", "d", "=", "'", "'">>
TypedTexts == {<<"x">>, <<"\"">>, IdOpen, IdEmpty, TwoEmpty}

Change(start, str) == [start |-> start, text |-> str, matches |-> <<>>]

\* text-change events on a document: one insertion, or id="" inserted at two
\* cursors at once, the two content changes in either order; every range
\* refers to the document as it was before the event
UserEvents(text) ==
  {<<Change(o, t)>> : o \in 0..Len(text), t \in TypedTexts}
    \cup {<<Change(p[1], IdEmpty), Change(p[2], IdEmpty)>> :
            p \in {q \in (0..Len(text)) \X (0..Len(text)) : q[1] # q[2]}}

\* the document after the changes of an event
ApplyChanges(text, ev) ==
  ApplyInserts(text, [i \in 1..Len(ev) |-> [offset |-> ev[i].start, name |-> ev[i].text]])

\* the user types: the document changes, then onDidChangeTextDocument calls
\* handleAutoInsert, which runs up to its first await.  An event with an
\* empty attribute arrives when no invocation is suspended.
TypeText ==
  /\ pcAuto[1] \in {"idle", "seeding"}
  /\ \E ev \in UserEvents(docText) :
       LET text == ApplyChanges(docText, ev)
           chs == Visit(text, ev)
       IN  /\ typedCount < MaxTyped
           /\ Len(text) <= MaxDocLen
           /\ typedCount' = typedCount + 1
           /\ docText' = text
           /\ IF AutoReturnsEarly(TRUE, isAutoInsertInProgress) \/ chs = <<>>
              THEN UNCHANGED <<usedNames, isAutoInsertInProgress, pcAuto,
                               changes, pend>>
              ELSE /\ pcAuto[1] = "idle"
                   /\ IF hasSeededNames
                      THEN \E gin \in [1..Len(Head(chs).matches) -> GenInputs] :
                             \E r \in {TextEdit(usedNames, text, chs, gin)} :
                               /\ usedNames' = r.used
                               /\ isAutoInsertInProgress' = TRUE
                               /\ pcAuto' = [pcAuto EXCEPT ![1] = r.pc]
                               /\ changes' = [changes EXCEPT ![1] = r.chs]
                               /\ pend' = [pend EXCEPT ![1] = r.pend]
                      ELSE /\ pcAuto' = [pcAuto EXCEPT ![1] = "seeding"]
                           /\ changes' = [changes EXCEPT ![1] = chs]
                           /\ UNCHANGED <<usedNames, isAutoInsertInProgress, pend>>
  /\ UNCHANGED <<callLog, exIn, exOut, probe, disk, scan, cache,
                 hasSeededNames, pcCmd, pcRefresh, pcComp, generatedName,
                 document, watchPending, fileEdits, staleScans, gets,
                 autoPrefix>>

\* seedUsedNamesIfNeeded resolves (lines 89-93), then lines 159-181 run on
\* the document as it is by now
SeedDone ==
  /\ pcAuto[1] = "seeding"
  /\ hasSeededNames' = TRUE
  /\ \E gin \in [1..Len(Head(changes[1]).matches) -> GenInputs] :
       \E r \in {TextEdit(usedNames \cup Names(ScanFrom(disk, 1)), docText,
                           changes[1], gin)} :
         /\ usedNames' = r.used
         /\ isAutoInsertInProgress' = TRUE
         /\ pcAuto' = [pcAuto EXCEPT ![1] = r.pc]
         /\ changes' = [changes EXCEPT ![1] = r.chs]
         /\ pend' = [pend EXCEPT ![1] = r.pend]
  /\ UNCHANGED <<callLog, exIn, exOut, probe, disk, scan, cache, pcCmd,
                 pcRefresh, pcComp, generatedName, document, watchPending,
                 fileEdits, staleScans, gets, autoPrefix, docText, typedCount>>

\* the edit is applied and its promise resolves: line 182, then the loop
\* goes on with the next content change (the event of the edit itself
\* arrives while the guard is set and is dropped at line 103)
TextEditSettle ==
  /\ pcAuto[1] = "editing"
  /\ pend[1] # <<>>
  /\ pend[1][1].name \notin document
  /\ LET text == ApplyInserts(docText, pend[1])
         rest == Visit(text, Tail(changes[1]))
     IN  /\ docText' = text
         /\ document' = document \cup {pend[1][i].name : i \in 1..Len(pend[1])}
         /\ IF rest = <<>>
            THEN /\ isAutoInsertInProgress' = FALSE
                 /\ pcAuto' = [pcAuto EXCEPT ![1] = "idle"]
                 /\ changes' = [changes EXCEPT ![1] = <<>>]
                 /\ pend' = [pend EXCEPT ![1] = <<>>]
                 /\ UNCHANGED usedNames
            ELSE \E gin \in [1..Len(Head(rest).matches) -> GenInputs] :
                   \E r \in {TextEdit(usedNames, text, rest, gin)} :
                     /\ usedNames' = r.used
                     /\ isAutoInsertInProgress' = TRUE
                     /\ pcAuto' = [pcAuto EXCEPT ![1] = r.pc]
                     /\ changes' = [changes EXCEPT ![1] = r.chs]
                     /\ pend' = [pend EXCEPT ![1] = r.pend]
  /\ UNCHANGED <<callLog, exIn, exOut, probe, disk, scan, cache,
                 hasSeededNames, pcCmd, pcRefresh, pcComp, generatedName,
                 watchPending, fileEdits, staleScans, gets, autoPrefix,
                 typedCount>>

\* handleAutoInsert with autoGenerate on, in an eligible document that the
\* user types into
NextEditor == TypeText \/ SeedDone \/ TextEditSettle

SpecEditor == Init /\ [][NextEditor]_vars

(* --------------- the text-change event of the edit itself -------------- *)
\* the matches handleAutoInsert finds in a content change that inserted
\* "name" between the quotes of id="": those of attributePattern in the
\* name, else the one of getEmptyAttributeAtPosition right after the name
OwnMatchCount(name) ==
  IF AttributeMatches(name, 0) # <<>> THEN Len(AttributeMatches(name, 0))
  ELSE IF getEmptyAttributeAtPosition(IdOpen \o name \o <<"\"">>,
                                      Len(IdOpen) + Len(name))
       THEN 1
       ELSE 0

\* the content changes of the event of an edit that inserted "names", as
\* the loop sees them
OwnChanges(names) ==
  SkipEmpty([i \in 1..Len(names) |-> OwnMatchCount(names[i])])

\* the edit of invocation h is applied: the document changes and
\* onDidChangeTextDocument calls handleAutoInsert with the event of the edit,
\* before the promise of editor.edit resolves
EditApply(h) ==
  /\ pcAuto[h] = "editing"
  /\ document' = document \cup SeqToSet(pend[h])
  /\ LET chs == OwnChanges(pend[h])
     IN  IF AutoReturnsEarly(TRUE, isAutoInsertInProgress) \/ chs = <<>>
         THEN /\ pcAuto' = [pcAuto EXCEPT ![h] = "applied"]
              /\ UNCHANGED <<usedNames, hasSeededNames, isAutoInsertInProgress,
                             changes, pend, scan, staleScans, gets>>
         ELSE \E k \in Handlers :
                /\ pcAuto[k] = "idle"
                /\ \E gin \in GinFor(chs) :
                     \E r \in {EnterChange(usedNames, isAutoInsertInProgress,
                                            chs, gin)} :
                       /\ usedNames' = r.used
                       /\ hasSeededNames' = r.seeded
                       /\ isAutoInsertInProgress' = r.guard
                       /\ pcAuto' = [pcAuto EXCEPT ![h] = "applied", ![k] = r.pc]
                       /\ changes' = [changes EXCEPT ![k] = r.chs]
                       /\ pend' = [pend EXCEPT ![k] = r.pend]
                       /\ SetScanner(k, r)
  /\ UNCHANGED <<callLog, exIn, exOut, probe, disk, cache, pcCmd, pcRefresh,
                 pcComp, generatedName, watchPending, fileEdits, autoPrefix,
                 docText, typedCount>>

\* the promise of editor.edit resolves: line 182, then the next content change
EditResolve(h) ==
  /\ pcAuto[h] = "applied"
  /\ LET rest == SkipEmpty(Tail(changes[h]))
     IN  IF rest = <<>>
         THEN /\ isAutoInsertInProgress' = FALSE
              /\ pcAuto' = [pcAuto EXCEPT ![h] = "idle"]
              /\ changes' = [changes EXCEPT ![h] = <<>>]
              /\ pend' = [pend EXCEPT ![h] = <<>>]
              /\ UNCHANGED <<usedNames, hasSeededNames, scan, staleScans, gets>>
         ELSE \E gin \in GinFor(rest) :
                \E r \in {EnterChange(usedNames, FALSE, rest, gin)} :
                  /\ SetHandler(h, r)
                  /\ SetScanner(h, r)
  /\ UNCHANGED <<callLog, exIn, exOut, probe, disk, cache, pcCmd, pcRefresh,
                 pcComp, generatedName, document, watchPending, fileEdits,
                 autoPrefix, docText, typedCount>>

\* the autoPrefix setting is any of PrefixSettings
InitSelf ==
  /\ InitProgram
  /\ autoPrefix \in PrefixSettings
  /\ docText = <<>>
  /\ typedCount = 0
  /\ exIn = NoMatch
  /\ exOut = NotExtracted

\* the auto-insert trigger with the events of its own edits
NextSelf ==
  \/ \E h \in Handlers : AutoTrigger(h)
  \/ \E h \in Handlers : EditApply(h)
  \/ \E h \in Handlers : EditResolve(h)
  \/ \E s \in ScanIds : ScanRead(s)

SpecSelf == InitSelf /\ [][NextSelf]_vars

(* ============================== claims ================================= *)
Returned(e) == e.op = "generate" /\ ~e.threw

\* C1: all the names returned by the generateUniqueName calls made on one
\* NameGenerator are pairwise distinct, whatever the prefixes.
C1_ReturnedNamesDistinct ==
  \A i \in 1..Len(callLog), j \in 1..Len(callLog) :
    (i < j /\ Returned(callLog[i]) /\ Returned(callLog[j]))
      => callLog[i].name # callLog[j].name

\* a call returned a name, and a later call drew a candidate that was
\* already in use, retried and returned another name
C1_Witness ==
  \E i \in 1..Len(callLog), j \in 1..Len(callLog) :
    /\ i < j
    /\ Returned(callLog[i])
    /\ Returned(callLog[j])
    /\ callLog[j].attempts > 0

\* C2: once addUsedName(n) has been called, no later generateUniqueName
\* call returns n.
C2_AddedNameNeverReturned ==
  \A i \in 1..Len(callLog), j \in 1..Len(callLog) :
    (i < j /\ callLog[i].op = "add" /\ Returned(callLog[j]))
      => callLog[j].name # callLog[i].name

\* the only name in use was passed to addUsedName, and the next
\* generateUniqueName call drew it, retried and returned another name
C2_Witness ==
  /\ Len(callLog) = 2
  /\ callLog[1].op = "add"
  /\ Returned(callLog[2])
  /\ callLog[2].attempts > 0

\* the entry a call appended to the log in this step
Logged == callLog'[Len(callLog')]

\* C11: a generateUniqueName call that fails has tried maxAttempts
\* candidates, raises to its caller and leaves the used-name set exactly as
\* it was; a call that returns has found its name unused before the bound.
C11_ExhaustionLeavesSetUntouched ==
  [][(Len(callLog') = Len(callLog) + 1 /\ Logged.op = "generate") =>
       IF Logged.threw
       THEN /\ usedNames' = usedNames
            /\ Logged.attempts = maxAttempts
       ELSE /\ Logged.name \notin usedNames
            /\ Logged.attempts < maxAttempts]_vars

\* a call threw although names other than its candidate were free, and a
\* later call with another draw returned a name
C11_Witness ==
  \E i \in 1..Len(callLog), j \in 1..Len(callLog) :
    /\ i < j
    /\ callLog[i].op = "generate"
    /\ callLog[i].threw
    /\ Returned(callLog[j])

LowerHex ==
  {"0", "1", "2", "3", "4", "5", "6", "7", "8", "9", "a", "b", "c", "d", "e", "f"}

\* "name" is "p", then "-", then exactly five lowercase hexadecimal characters
HasGeneratedForm(name, p) ==
  /\ Len(name) = Len(p) + 6
  /\ SubSeq(name, 1, Len(p)) = p
  /\ name[Len(p) + 1] = "-"
  /\ \A i \in (Len(p) + 2)..(Len(p) + 6) : name[i] \in LowerHex

\* C13: generateUniqueName(p) returns p, the delimiter "-" and exactly five
\* lowercase hexadecimal characters; the bare "-" starts the name when p is
\* empty and "elem-" starts it when p is omitted.
C13_NameHasGeneratedForm ==
  \A i \in 1..Len(callLog) :
    Returned(callLog[i]) =>
      HasGeneratedForm(callLog[i].name,
                       IF callLog[i].arg.given THEN callLog[i].arg.val
                       ELSE <<"e", "l", "e", "m">>)

\* one call with the prefix omitted, one with the empty prefix and one with
\* a prefix given have all returned a name
C13_Witness ==
  /\ \E i \in 1..Len(callLog) : Returned(callLog[i]) /\ ~callLog[i].arg.given
  /\ \E i \in 1..Len(callLog) :
       Returned(callLog[i]) /\ callLog[i].arg = Given(<<>>)
  /\ \E i \in 1..Len(callLog) :
       Returned(callLog[i]) /\ callLog[i].arg.given /\ callLog[i].arg.val # <<>>

\* C14: a document that cannot be opened does not end the scan: every scan
\* that ends has stored its array in the cache, and a caller that awaits a
\* scan goes on with its result (the command reaches its prompt, the refresh
\* command and the completion request complete with a snapshot in the cache,
\* the auto-insert trigger reaches its edit or its exhaustion).
C14_ScanSurvivesReadFailure ==
  [][\A s \in ScanIds :
       (scan[s].st = "reading" /\ scan'[s].st = "free") =>
         /\ cache'.id = s
         /\ scan[s].owner.kind = "cmd" => pcCmd' = "inputBox"
         /\ scan[s].owner.kind = "auto" => hasSeededNames']_vars

\* C12: no runtime event (manual command, auto-insert trigger, completion
\* request, file-watch event, refresh command) removes a name from the
\* used-name set.
C12_UsedNamesNeverShrink == [][usedNames \subseteq usedNames']_vars

\* names read from the workspace and a generated name that was inserted are
\* in the set, after a watcher event invalidated the index and the seed flag
C12_Witness ==
  /\ Names(ExtractDocument(DocList)) \subseteq usedNames
  /\ document # {}
  /\ document \subseteq usedNames
  /\ ~hasSeededNames
  /\ cache.id = 0
  /\ fileEdits > 0

\* the manual command ends at one of its prompts without inserting a name
CmdEndsAtPrompt ==
  pcCmd \in {"inputBox", "quickPick"} /\ pcCmd' = "idle" /\ document' = document

\* C15: when a prompt of the manual command is dismissed, the used-name set,
\* the seed flag and the document are as the command found them, and the
\* cache holds no array that it did not hold then.
C15_DismissalLeavesNoTrace ==
  [][CmdEndsAtPrompt =>
       /\ usedNames' = probe.used
       /\ cache'.id # 0 => cache' = probe.cache
       /\ hasSeededNames' = probe.seeded
       /\ document' = probe.doc]_vars

\* the manual command was invoked in this step without a context
CmdNoContext ==
  probe' # probe /\ probe'.op = "cmd" /\ ~(probe'.hasEditor /\ probe'.eligible)

\* C16: the manual command invoked with no active editor, or with a document
\* of a language that is not eligible, starts no scan, adds nothing to the
\* used-name set, generates no name and edits no document.
C16_NoContextChangesNothing ==
  [][CmdNoContext =>
       UNCHANGED <<scan, cache, gets, usedNames, hasSeededNames, generatedName,
                   document, pcCmd>>]_vars

\* the command was invoked on a document of another language while files
\* with names waited to be scanned, and nothing happened
C16_Witness ==
  /\ probe.op = "cmd"
  /\ probe.hasEditor
  /\ ~probe.eligible
  /\ probe.cache.id = 0
  /\ \E f \in Files : disk[f] # DocNone
  /\ pcCmd = "idle"
  /\ \A s \in ScanIds : scan[s].st = "free"

\* C17: the names inserted for one text-change event go into one edit: once
\* the edit of an invocation has settled, the invocation ends.
C17_OneEditPerEvent ==
  [][\A h \in Handlers :
       (pcAuto[h] = "editing" /\ pend'[h] # pend[h]) => pcAuto'[h] = "idle"]_vars

\* a text-change event was handled in this step with autoGenerate false
AutoGenerateOff == probe' # probe /\ probe'.op = "auto" /\ ~probe'.autoGenerate

\* C18: with autoGenerate false a text-change event starts no scan, seeds
\* nothing, generates no name and edits nothing.
C18_AutoGenerateOffChangesNothing ==
  [][AutoGenerateOff =>
       UNCHANGED <<scan, cache, gets, hasSeededNames, usedNames,
                   isAutoInsertInProgress, document, pcAuto, changes, pend>>]_vars

\* an event with an empty attribute in an eligible document arrived with
\* autoGenerate false, while the guard was free and nothing was seeded
C18_Witness ==
  /\ probe.op = "auto"
  /\ ~probe.autoGenerate
  /\ probe.matching
  /\ ~isAutoInsertInProgress
  /\ ~hasSeededNames
  /\ \A h \in Handlers : pcAuto[h] = "idle"
  /\ \A s \in ScanIds : scan[s].st = "free"
  /\ \E f \in Files : disk[f] # DocNone

\* the records of the snapshot of a completion request, and the kind asked for
Snapshot == ScanFrom(exIn.disk, 1)
Asked == IF exIn.trigger = "." THEN "class" ELSE "id"
Offered == {exOut.recs[i].label : i \in 1..Len(exOut.recs)}

\* C19: a completion request offers only names the snapshot holds with the
\* kind asked for, each name once; with nothing typed it offers all of them,
\* so that class="card highlight" gives card and highlight for "." and
\* neither for "#"; the request leaves the used-name set alone.
C19_CompletionByKindOnce ==
  [][(exOut'.done /\ ~exOut.done) =>
       /\ \A i \in 1..Len(exOut'.recs) :
            \E k \in 1..Len(Snapshot) :
              /\ Snapshot[k].type = Asked
              /\ Snapshot[k].name = exOut'.recs[i].label
       /\ \A i \in 1..Len(exOut'.recs), j \in 1..Len(exOut'.recs) :
            exOut'.recs[i].label = exOut'.recs[j].label => i = j
       /\ exIn.typed = <<>> =>
            \A k \in 1..Len(Snapshot) :
              Snapshot[k].type = Asked =>
                \E i \in 1..Len(exOut'.recs) :
                  exOut'.recs[i].label = Snapshot[k].name
       /\ (\E f \in Files : exIn.disk[f] = DocCard) /\ exIn.typed = <<>> =>
            \A n \in {Card, Highlight} :
              (\E i \in 1..Len(exOut'.recs) : exOut'.recs[i].label = n)
                <=> (exIn.trigger = ".")
       /\ usedNames' = usedNames]_vars

\* class="card highlight" is in two files and an id in none: the "."
\* request has offered card and highlight once each
C19_Witness ==
  /\ exOut.done
  /\ exIn.trigger = "."
  /\ \A f \in Files : exIn.disk[f] = DocCard
  /\ Len(exOut.recs) = 2
  /\ Offered = {Card, Highlight}

\* C20: when something has been typed after the "." or "#", every candidate
\* returned contains the typed text.
C20_CompletionFilteredByTypedPart ==
  exOut.done =>
    \A i \in 1..Len(exOut.recs) : Includes(exOut.recs[i].label, exIn.typed)

\* C22: getUsedNames() called right after clear() returns an empty array,
\* whatever was generated or added before.
C22_ClearThenGetIsEmpty ==
  [][(/\ callLog # <<>>
      /\ callLog[Len(callLog)].op = "clear"
      /\ Len(callLog') = Len(callLog) + 1
      /\ Logged.op = "get") => probe'.result = <<>>]_vars

\* a name was generated or added, then clear() and getUsedNames() were called
C22_Witness ==
  /\ Len(callLog) = 3
  /\ callLog[1].op \in {"generate", "add"}
  /\ ~callLog[1].threw
  /\ callLog[2].op = "clear"
  /\ callLog[3].op = "get"
  /\ probe.op = "get"

\* the last clear() call in the log (0: none)
LastClear ==
  IF \E i \in 1..Len(callLog) : callLog[i].op = "clear"
  THEN CHOOSE i \in 1..Len(callLog) :
         /\ callLog[i].op = "clear"
         /\ \A j \in (i + 1)..Len(callLog) : callLog[j].op # "clear"
  ELSE 0

\* the names returned by generateUniqueName or passed to addUsedName since
SinceClear ==
  {callLog[i].name : i \in {j \in (LastClear + 1)..Len(callLog) :
                               \/ callLog[j].op = "add"
                               \/ callLog[j].op = "generate" /\ ~callLog[j].threw}}

\* C23: the array getUsedNames() returns holds the names returned by
\* generateUniqueName or passed to addUsedName since construction or the last
\* clear(), each once, and no other name.
C23_UsedNamesAreThoseRegistered ==
  (callLog # <<>> /\ callLog[Len(callLog)].op = "get") =>
    /\ SeqToSet(probe.result) = SinceClear
    /\ Len(probe.result) = Cardinality(SinceClear)

\* a name was added twice and another one generated; getUsedNames() returned
\* the two names
C23_Witness ==
  /\ Len(callLog) = 3
  /\ callLog[1].op = "add"
  /\ callLog[2].op = "generate"
  /\ ~callLog[2].threw
  /\ callLog[3].op = "get"
  /\ Len(probe.result) = 2

\* the candidate the call logged in this step drew at attempt i (from 0)
Candidate(i) ==
  (IF Logged.arg.given THEN Logged.arg.val ELSE <<"e", "l", "e", "m">>)
    \o <<"-">> \o HashOf[IF i < probe'.draws.k THEN probe'.draws.first
                          ELSE probe'.draws.rest]

\* the attempts of that call whose candidate was not in the set
FreeAttempts == {i \in 0..99 : Candidate(i) \notin usedNames}

\* C24: a generateUniqueName call draws at most 100 candidates: it returns
\* the first of the 100 that is absent from the used-name set, having drawn
\* no candidate after it, and throws only when all 100 were in the set.
C24_AtMostHundredDraws ==
  [][(Len(callLog') = Len(callLog) + 1 /\ Logged.op = "generate") =>
       IF FreeAttempts # {}
       THEN /\ ~Logged.threw
            /\ Logged.attempts \in FreeAttempts
            /\ \A i \in FreeAttempts : Logged.attempts <= i
            /\ Logged.name = Candidate(Logged.attempts)
       ELSE /\ Logged.threw
            /\ Logged.attempts = 100]_vars

\* a call threw after 100 candidates that were in the set, although the
\* candidate a 101st draw would have yielded was free
C24_Witness ==
  /\ probe.op = "generate"
  /\ callLog[Len(callLog)].op = "generate"
  /\ callLog[Len(callLog)].threw
  /\ callLog[Len(callLog)].attempts = 100
  /\ probe.draws.k = 100
  /\ probe.draws.first # probe.draws.rest
  /\ LET arg == callLog[Len(callLog)].arg
     IN  (IF arg.given THEN arg.val ELSE <<"e", "l", "e", "m">>)
           \o <<"-">> \o HashOf[probe.draws.rest] \notin usedNames

\* the "<" of the nearest "<tagname" before the end of the text with no ">"
\* after it (0: none)
NearestOpenTag(text) ==
  IF \E i \in 1..(Len(text) - 1) :
       /\ text[i] = "<"
       /\ text[i + 1] \in Letters
       /\ \A j \in i..Len(text) : text[j] # ">"
  THEN CHOOSE i \in 1..(Len(text) - 1) :
         /\ text[i] = "<"
         /\ text[i + 1] \in Letters
         /\ \A j \in i..Len(text) : text[j] # ">"
         /\ \A k \in (i + 1)..(Len(text) - 1) :
              ~(text[k] = "<" /\ text[k + 1] \in Letters)
  ELSE 0

\* the prefix the specification words: the tag name of the nearest unclosed
\* tag in element mode, the setting (default "elem") otherwise
SpecifiedPrefix ==
  LET configured == IF exIn.setting.given THEN exIn.setting.val
                    ELSE <<"e", "l", "e", "m">>
      open == NearestOpenTag(exIn.text)
  IN  IF exIn.mode = "element" /\ open # 0
      THEN TagRun(exIn.text, open + 1)
      ELSE configured

\* C21: the inserted name begins with the specified prefix and "-": in
\* element mode the tag name of the nearest unclosed "<tagname" before the
\* insertion position (the autoPrefix setting when there is none), in fixed
\* mode the autoPrefix setting.
C21_PrefixOfInsertedName ==
  exOut.done =>
    /\ Len(exOut.recs) = Len(SpecifiedPrefix) + 6
    /\ SubSeq(exOut.recs, 1, Len(SpecifiedPrefix) + 1) = SpecifiedPrefix \o <<"-">>

\* scan a started before scan b
StartedBefore(a, b) ==
  \E i \in 1..Len(StartOrder), j \in 1..Len(StartOrder) :
    i < j /\ StartOrder[i] = a /\ StartOrder[j] = b

\* C27: a scan that stores its array over the array of another scan started
\* after that scan: the cache never goes back to the result of a scan that
\* started earlier.
C27_LaterScanWins ==
  [][\A s \in ScanIds :
       (/\ scan[s].st = "reading"
        /\ scan'[s].st = "free"
        /\ cache'.id = s
        /\ cache.id # 0) => StartedBefore(cache.id, s)]_vars

\* C28: whenever hasSeededNames is true and a snapshot is cached, every name
\* of the cached snapshot is in the used-name set.
C28_SeededMeansRegistered ==
  (hasSeededNames /\ cache.id # 0) => Names(cache.recs) \subseteq usedNames

\* the manual command's generateUniqueName call returned in this step
CmdGenerated == pcCmd = "inputBox" /\ pcCmd' = "quickPick"

\* the edit callback of invocation h generated its names in this step
AutoGenerated(h) == pend'[h] # pend[h] /\ pend'[h] # <<>>

\* C3: whenever the manual command or the auto-insert trigger calls
\* generateUniqueName, every name of the published snapshot (cached, with no
\* file-watch event outstanding against it) is already in the used-name
\* set, as the set was before the names of this step were added to it.
C3_SnapshotSeededAtGenerate ==
  [][/\ (CmdGenerated /\ ~watchPending) =>
          Names(cache'.recs) \subseteq (usedNames' \ {generatedName'})
     /\ \A h \in Handlers :
          (AutoGenerated(h) /\ ~watchPending) =>
            Names(cache'.recs) \subseteq (usedNames' \ SeqToSet(pend'[h]))]_vars

\* C4: while one handleAutoInsert invocation is applying its edit, no other
\* invocation generates names and applies an edit.
C4_OneEditAtATime ==
  \A h1 \in Handlers, h2 \in Handlers :
    (pcAuto[h1] = "editing" /\ pcAuto[h2] = "editing") => h1 = h2

\* C5: the reentrancy guard is never left set once no handleAutoInsert
\* invocation is running.
C5_GuardReleased ==
  (\A h \in Handlers : pcAuto[h] = "idle") => ~isAutoInsertInProgress

\* a getClassesAndIds call returned the cached array in this step
CacheHit == cache.id # 0 /\ cache' = cache /\ gets' # gets /\ gets' = cache.id

\* C6: a getClassesAndIds call made after clearCache never returns the
\* result of a scan that started before that clearCache.
C6_FreshAfterClear == [][CacheHit => cache.id \notin staleScans]_vars

\* C7: two getClassesAndIds calls with no clearCache and no file-watch
\* event between them return the same array.
C7_SameSnapshotReturned == [][(gets # 0 /\ gets' # 0) => gets' = gets]_vars

\* C8: every operation that invalidates the snapshot (a watcher event, the
\* refresh command) leaves hasSeededNames false.
C8_InvalidationResetsSeed ==
  [][(WatcherEvent \/ RefreshStart) => ~hasSeededNames']_vars

\* C9: the array in the cache, and the array a getClassesAndIds call
\* returned, is never one a scan is still filling, and the cached array is
\* not modified while it stays in the cache.
C9_SnapshotPublishedWhole ==
  [][/\ cache'.id # 0 => scan'[cache'.id].st = "free"
     /\ gets' # 0 => scan'[gets'].st = "free"
     /\ (cache.id # 0 /\ cache'.id = cache.id) => cache'.recs = cache.recs]_vars

\* a scan holds the records of its first file only while the cache holds
\* the finished array of another scan
C9_Witness ==
  \E s \in ScanIds :
    /\ scan[s].st = "reading"
    /\ scan[s].next > 1
    /\ scan[s].results # <<>>
    /\ cache.id # 0
    /\ cache.id # s

\* the whitespace-separated tokens of a value, as the specification words them
RECURSIVE WsTokens(_, _)
WsTokens(s, cur) ==
  IF s = <<>> THEN (IF cur = <<>> THEN <<>> ELSE <<cur>>)
  ELSE IF IsWs(Head(s))
       THEN (IF cur = <<>> THEN <<>> ELSE <<cur>>) \o WsTokens(Tail(s), <<>>)
       ELSE WsTokens(Tail(s), Append(cur, Head(s)))

ClassRecords(tokens) ==
  [i \in 1..Len(tokens) |-> [name |-> tokens[i], type |-> "class"]]

HasWs(s) == \E i \in 1..Len(s) : IsWs(s[i])

\* C10: a class or className value containing whitespace yields one class
\* record per token; any other value yields exactly one record, of kind id
\* iff the attribute name was id; an id value is never split.
C10_ExtractionAsSpecified ==
  exOut.done =>
    exOut.recs =
      IF exIn.attr # AttrId /\ HasWs(exIn.content)
      THEN ClassRecords(WsTokens(exIn.content, <<>>))
      ELSE <<[name |-> exIn.content,
              type |-> IF exIn.attr = AttrId THEN "id" ELSE "class"]>>

\* the inserts of the edit that handleAutoInsert has asked for
EditInserts == IF pcAuto[1] = "editing" THEN pend[1] ELSE <<>>

\* C25: within one auto-insert edit no insertion point is processed before
\* another one of the same edit that lies at a greater document offset, the
\* point found by the closing-quote special case included.
C25_DescendingOffsets ==
  \A i, j \in 1..Len(EditInserts) :
    i < j => EditInserts[i].offset >= EditInserts[j].offset

\* one edit with two insertion points at different offsets
C25_Witness ==
  /\ Len(EditInserts) = 2
  /\ EditInserts[1].offset > EditInserts[2].offset

\* the offset lies between the two quotes of an empty class, className or id
\* attribute of the text
BetweenEmptyQuotes(text, offset) ==
  /\ offset >= 1
  /\ offset < Len(text)
  /\ text[offset] \in Quotes
  /\ text[offset + 1] = text[offset]
  /\ LET t == TrimEnd(SubSeq(text, 1, offset - 1))
     IN  /\ t # <<>>
         /\ t[Len(t)] = "="
         /\ \E k \in 1..3 :
              LET a == AttrAlternatives[k]
                  u == TrimEnd(SubSeq(t, 1, Len(t) - 1))
              IN  HoldsAt(u, Len(u) - Len(a), a)

\* C26: every name the auto-insert trigger inserts lands exactly between the
\* two quotes of an empty class/className/id attribute of the document the
\* edit is applied to, also when the event has several content changes and
\* when the document changed while the handler awaited the seeding scan.
C26_InsertedBetweenQuotes ==
  \A i \in 1..Len(EditInserts) :
    BetweenEmptyQuotes(docText, EditInserts[i].offset)

\* C29: the text-change event of the auto-insert trigger's own edit never
\* leads to a further name generation or edit: when the edit of an invocation
\* is applied the guard is left as it is (nothing gets past line 103 to set
\* it), no name is generated and no other invocation starts.
C29_OwnEventIsDropped ==
  [][\A h \in Handlers :
       (pcAuto[h] = "editing" /\ pcAuto'[h] = "applied") =>
         /\ isAutoInsertInProgress' = isAutoInsertInProgress
         /\ usedNames' = usedNames
         /\ \A k \in Handlers \ {h} : pcAuto'[k] = pcAuto[k]]_vars

====
